---- MODULE Spec2Model ----
(***************************************************************************)
(* FargateTaskEnvironment                                                  *)
(* (src/prefect/environments/execution/fargate/fargate_task.py).           *)
(*                                                                         *)
(* One environment object: its construction (__init__, _parse_kwargs),     *)
(* setup and execute, together with the log of the calls made on the       *)
(* boto3 ECS client.  Python dicts are functions whose DOMAIN is the set   *)
(* of keys present; lists are sequences; `None` results of dict.get are    *)
(* the empty sequence and a present value v is <<v>>.  Dicts and lists are *)
(* values: the container entries the caller supplies are taken to be       *)
(* distinct objects that share no environment list.                        *)
(***************************************************************************)
EXTENDS Integers, Sequences, FiniteSets, TLC

VARIABLES
    status,                  \* "new", "constructed", or the exception __init__ raised
    args,                    \* the arguments __init__ was called with
    launch_type,             \* self.launch_type
    executor,                \* self.executor
    task_definition_kwargs,  \* self.task_definition_kwargs
    task_run_kwargs,         \* self.task_run_kwargs
    warnings,                \* messages passed to warnings.warn, in order
    calls,                   \* calls made on the boto3 ECS client, in order
    invocations,             \* number of setup/execute calls made so far
    last                     \* the most recent setup/execute call: its arguments,
                             \* the mapping and the length of the log when it began,
                             \* and what it raised to its caller

vars == <<status, args, launch_type, executor, task_definition_kwargs,
          task_run_kwargs, warnings, calls, invocations, last>>

----------------------------------------------------------------------------
(* Python values *)

None == <<>>
Some(v) == <<v>>

EmptyDict == <<>>

\* d.get(k)
Get(d, k) == IF k \in DOMAIN d THEN Some(d[k]) ELSE None

\* d[k] = v  /  d.update({k: v})
Put(d, k, v) == [x \in (DOMAIN d) \cup {k} |-> IF x = k THEN v ELSE d[x]]

\* the dict d without the keys in K
Without(d, K) == [x \in (DOMAIN d) \ K |-> d[x]]

Last(s) == s[Len(s)]

\* `not d.get(k)` for a key holding a list: missing, None or empty
FalsyList(d, k) == (k \notin DOMAIN d) \/ (d[k] = <<>>)

\* `not d.get(k)` for a key holding a string: missing, None or ""
FalsyStr(d, k) == (k \notin DOMAIN d) \/ (d[k] = "")

----------------------------------------------------------------------------
(* Bounds of the model *)

\* setup/execute calls made on one environment
MaxOps == 2

\* longest containerDefinitions list a caller supplies
MaxContainers == 2

----------------------------------------------------------------------------
(* __init__ and _parse_kwargs *)

definition_kwarg_list ==
    { "family", "taskRoleArn", "executionRoleArn", "networkMode",
      "containerDefinitions", "volumes", "placementConstraints",
      "requiresCompatibilities", "cpu", "memory", "tags", "pidMode",
      "ipcMode", "proxyConfiguration", "inferenceAccelerators" }

run_kwarg_list ==
    { "cluster", "taskDefinition", "count", "startedBy", "group",
      "placementConstraints", "placementStrategy", "platformVersion",
      "networkConfiguration", "tags", "enableECSManagedTags",
      "propagateTags" }

\* one of the two loops of _parse_kwargs: the items whose key is in the list
SelectKeys(user_kwargs, kwarg_list) ==
    [k \in {x \in DOMAIN user_kwargs : x \in kwarg_list} |-> user_kwargs[k]]

\* _parse_kwargs with an exclusive split: the run mapping leaves out the keys
\* the definition mapping took
ParseKwargsExclusive(user_kwargs) ==
    [definition |-> SelectKeys(user_kwargs, definition_kwarg_list),
     run        |-> SelectKeys(user_kwargs, run_kwarg_list \ definition_kwarg_list)]

_parse_kwargs(user_kwargs) ==
    [definition |-> SelectKeys(user_kwargs, definition_kwarg_list),
     run        |-> SelectKeys(user_kwargs, run_kwarg_list)]

DeprecationMessage == "executor_kwargs is deprecated, use executor instead"

\* Executors are [class, obj]: the object's class and its identity.
ExecutorClasses == {"LocalExecutor", "DaskExecutor"}

DefaultExecutorClass == "LocalExecutor"

NoExecutor == [class |-> "NoneType", obj |-> "None"]

\* an isinstance test that lets every object through
IsAnything(e) == TRUE

\* isinstance(executor, prefect.engine.executors.Executor)
IsExecutor(e) == e.class \in ExecutorClasses

\* prefect.engine.get_default_executor_class()(**(executor_kwargs or {}))
NewDefaultExecutor(executor_kwargs) ==
    [class |-> DefaultExecutorClass, obj |-> "created by __init__"]

\* a deprecation test on the truth value of executor_kwargs: `if executor_kwargs:`
WarnIfTruthy(executor_kwargs, issued) ==
    IF executor_kwargs # None /\ executor_kwargs # Some(EmptyDict)
    THEN Append(issued, DeprecationMessage)
    ELSE issued

\* `if executor_kwargs is not None: warnings.warn(...)`
warn_deprecated(executor_kwargs, issued) ==
    IF executor_kwargs # None THEN Append(issued, DeprecationMessage) ELSE issued

\* FargateTaskEnvironment(launch_type, executor, executor_kwargs, **kwargs);
\* the credentials, labels, callbacks and metadata are stored and not read
\* again by setup or execute, and are left out.
__init__(a) ==
    LET parsed == _parse_kwargs(a.kwargs)
    IN  /\ status = "new"
        /\ args' = a
        /\ launch_type' = a.launch_type
        /\ task_definition_kwargs' = parsed.definition
        /\ task_run_kwargs' = parsed.run
        /\ warnings' = warn_deprecated(a.executor_kwargs, warnings)
        /\ IF a.executor = NoExecutor
             THEN /\ executor' = NewDefaultExecutor(a.executor_kwargs)
                  /\ status' = "constructed"
             ELSE IF ~IsExecutor(a.executor)
                  THEN /\ executor' = executor
                       /\ status' = "TypeError"
                  ELSE /\ executor' = a.executor
                       /\ status' = "constructed"
        /\ UNCHANGED <<calls, invocations, last>>

----------------------------------------------------------------------------
(* Collaborators: prefect.config, prefect.context, get_flow_image, boto3 *)

\* prefect.config, as far as setup and execute read it
config ==
    [cloud   |-> [graphql    |-> "https://api.prefect.io/graphql",
                  auth_token |-> "cloud-token",
                  agent      |-> [auth_token |-> ""]],
     logging |-> [extra_loggers |-> <<"boto3">>]]

\* str(list) of the extra loggers
str(l) == IF l = <<>> THEN "[]" ELSE "['boto3']"

\* Python's `a or b` on strings
Or(a, b) == IF a # "" THEN a ELSE b

\* the flows handed to setup and execute
Flows == {"flow-a", "flow-b"}

\* prefect.utilities.storage.get_flow_image(flow)
get_flow_image(flow) ==
    IF flow = "flow-a" THEN "registry/flow-a:latest" ELSE "registry/flow-b:latest"

\* prefect.context at the time of a call
Contexts == {EmptyDict, [flow_run_id |-> "run-1"]}

\* what a call on the ECS client does: returns, raises a
\* botocore.exceptions.ClientError (with the service's error code), or raises
\* an exception that is no ClientError
ClientErrorCodes == {"ClientException", "AccessDeniedException"}

OtherErrors == {"EndpointConnectionError"}

Outcomes == {"ok"} \cup ClientErrorCodes \cup OtherErrors

\* what register_task_definition and run_task do in the runs examined
WriteOutcomes == {"ok", "ClientException"}

\* isinstance(e, ClientError), the test of `except ClientError`
IsClientError(outcome) == outcome \in ClientErrorCodes

ApiCall(api, request, outcome) ==
    [api |-> api, request |-> request, outcome |-> outcome]

\* the record of a call of setup or execute that ended by raising `exception`
Invocation(op, flow, context, exception) ==
    [op |-> op, flow |-> flow, context |-> context,
     before |-> task_definition_kwargs, mark |-> Len(calls), raised |-> exception]

----------------------------------------------------------------------------
(* setup *)

env_values ==
    << [name |-> "PREFECT__CLOUD__GRAPHQL", value |-> config.cloud.graphql],
       [name |-> "PREFECT__CLOUD__USE_LOCAL_SECRETS", value |-> "false"],
       [name  |-> "PREFECT__ENGINE__FLOW_RUNNER__DEFAULT_CLASS",
        value |-> "prefect.engine.cloud.CloudFlowRunner"],
       [name  |-> "PREFECT__ENGINE__TASK_RUNNER__DEFAULT_CLASS",
        value |-> "prefect.engine.cloud.CloudTaskRunner"],
       [name |-> "PREFECT__LOGGING__LOG_TO_CLOUD", value |-> "true"],
       [name  |-> "PREFECT__LOGGING__EXTRA_LOGGERS",
        value |-> str(config.logging.extra_loggers)] >>

FlowCommand ==
    << "/bin/sh", "-c",
       "python -c 'import prefect; prefect.environments.FargateTaskEnvironment().run_flow()'" >>

\* a setup that registers whether or not the definition exists
NeverExists(describe_outcome) == FALSE

\* definition_exists after the try/except around describe_task_definition
definition_exists(describe_outcome) == ~IsClientError(describe_outcome)

\* "create containerDefinitions if they do not exist"
EnsureContainers(kwargs) ==
    IF FalsyList(kwargs, "containerDefinitions")
    THEN Put(kwargs, "containerDefinitions", <<EmptyDict>>)
    ELSE kwargs

\* the variables put in front of the entries the container already has
AddEnvironmentInFront(definition) ==
    LET d == IF FalsyList(definition, "environment")
             THEN Put(definition, "environment", <<>>)
             ELSE definition
    IN  Put(d, "environment", env_values \o d["environment"])

\* the body of "set environment variables for all containers"
AddEnvironment(definition) ==
    LET d == IF FalsyList(definition, "environment")
             THEN Put(definition, "environment", <<>>)
             ELSE definition
    IN  Put(d, "environment", d["environment"] \o env_values)

\* name, image and command set on the first container only where it has none
SetFirstContainerIfMissing(definition, flow) ==
    LET d1 == IF FalsyStr(definition, "name")
              THEN Put(definition, "name", "flow-container") ELSE definition
        d2 == IF FalsyStr(d1, "image")
              THEN Put(d1, "image", get_flow_image(flow)) ELSE d1
    IN  IF FalsyList(d2, "command") THEN Put(d2, "command", FlowCommand) ELSE d2

\* "set name / image / command on first container"
SetFirstContainer(definition, flow) ==
    LET d1 == IF FalsyStr(definition, "name")
              THEN Put(definition, "name", "") ELSE definition
        d2 == Put(d1, "name", "flow-container")
        d3 == IF FalsyStr(d2, "image") THEN Put(d2, "image", "") ELSE d2
        d4 == Put(d3, "image", get_flow_image(flow))
        d5 == IF FalsyList(d4, "command") THEN Put(d4, "command", <<>>) ELSE d4
    IN  Put(d5, "command", FlowCommand)

\* self.task_definition_kwargs as the `if not definition_exists` block leaves it
PrepareDefinition(kwargs, flow) ==
    LET k   == EnsureContainers(kwargs)
        cds == [i \in 1..Len(k["containerDefinitions"]) |->
                   AddEnvironment(k["containerDefinitions"][i])]
    IN  Put(k, "containerDefinitions",
            [cds EXCEPT ![1] = SetFirstContainer(cds[1], flow)])

\* the query keyed by the run options' taskDefinition instead of the family
DescribeCallByTaskDefinition(describe_outcome) ==
    ApiCall("describe_task_definition",
            [taskDefinition |-> Get(task_run_kwargs, "taskDefinition")],
            describe_outcome)

\* describe_task_definition(taskDefinition=self.task_definition_kwargs.get("family"))
DescribeCall(describe_outcome) ==
    ApiCall("describe_task_definition",
            [taskDefinition |-> Get(task_definition_kwargs, "family")],
            describe_outcome)

setup(flow, describe_outcome, register_outcome) ==
    /\ status = "constructed"
    /\ invocations < MaxOps
    /\ invocations' = invocations + 1
    /\ IF describe_outcome # "ok" /\ ~IsClientError(describe_outcome)
       THEN \* not caught by `except ClientError`: setup ends here
            /\ calls' = Append(calls, DescribeCall(describe_outcome))
            /\ last' = Invocation("setup", flow, EmptyDict, describe_outcome)
            /\ UNCHANGED task_definition_kwargs
       ELSE IF definition_exists(describe_outcome)
       THEN /\ calls' = Append(calls, DescribeCall(describe_outcome))
            /\ last' = Invocation("setup", flow, EmptyDict, "none")
            /\ UNCHANGED task_definition_kwargs
       ELSE LET kwargs == PrepareDefinition(task_definition_kwargs, flow)
            IN  /\ task_definition_kwargs' = kwargs
                /\ calls' = calls \o
                       << DescribeCall(describe_outcome),
                          ApiCall("register_task_definition", kwargs, register_outcome) >>
                /\ last' = Invocation("setup", flow, EmptyDict,
                                       IF register_outcome = "ok" THEN "none"
                                       ELSE register_outcome)
    /\ UNCHANGED <<status, args, launch_type, executor, task_run_kwargs, warnings>>

----------------------------------------------------------------------------
(* execute *)

\* prefect.context.get("flow_run_id", "unknown")
flow_run_id(context) ==
    IF "flow_run_id" \in DOMAIN context THEN context["flow_run_id"] ELSE "unknown"

container_overrides(flow, context) ==
    << [name |-> "flow-container",
        environment |->
          << [name  |-> "PREFECT__CLOUD__AUTH_TOKEN",
              value |-> Or(config.cloud.agent.auth_token, config.cloud.auth_token)],
             [name |-> "PREFECT__CONTEXT__FLOW_RUN_ID", value |-> flow_run_id(context)],
             [name |-> "PREFECT__CONTEXT__IMAGE", value |-> get_flow_image(flow)] >>] >>

\* run_task with the default launch type instead of the configured one
RunTaskRequestDefaultLaunchType(flow, context) ==
    [k \in {"overrides", "launchType"} \cup DOMAIN task_run_kwargs |->
        IF k = "overrides"
        THEN [containerOverrides |-> container_overrides(flow, context)]
        ELSE IF k = "launchType" THEN "FARGATE"
        ELSE task_run_kwargs[k]]

\* the keyword arguments of boto3_c.run_task(...)
RunTaskRequest(flow, context) ==
    [k \in {"overrides", "launchType"} \cup DOMAIN task_run_kwargs |->
        IF k = "overrides"
        THEN [containerOverrides |-> container_overrides(flow, context)]
        ELSE IF k = "launchType" THEN launch_type
        ELSE task_run_kwargs[k]]

execute(flow, context, run_outcome) ==
    /\ status = "constructed"
    /\ invocations < MaxOps
    /\ invocations' = invocations + 1
    /\ IF {"overrides", "launchType"} \cap DOMAIN task_run_kwargs # {}
       THEN \* a keyword argument given twice
            /\ last' = Invocation("execute", flow, context, "TypeError")
            /\ UNCHANGED calls
       ELSE /\ calls' = Append(calls,
                   ApiCall("run_task", RunTaskRequest(flow, context), run_outcome))
            /\ last' = Invocation("execute", flow, context,
                                   IF run_outcome = "ok" THEN "none" ELSE run_outcome)
    /\ UNCHANGED <<status, args, launch_type, executor, task_definition_kwargs,
                   task_run_kwargs, warnings>>

----------------------------------------------------------------------------
(* Arguments the environment is constructed with *)

UserEnvironment == << [name |-> "A", value |-> "1"], [name |-> "B", value |-> "2"] >>

\* container entries a caller supplies: one with every field set, an empty
\* one, and a sidecar with an empty environment list; a supplied list starts
\* with one of the first two
ContainerTemplates ==
    << [name |-> "user-name", image |-> "user/image:1",
        command |-> <<"echo", "hi">>, environment |-> UserEnvironment,
        memory |-> 512],
       EmptyDict,
       [name |-> "sidecar", image |-> "side/image:2", environment |-> <<>>,
        essential |-> FALSE] >>

\* the n templates that follow template s, cyclically
ContainerList(s, n) ==
    [i \in 1..n |->
        ContainerTemplates[((s + i - 2) % Len(ContainerTemplates)) + 1]]

ContainerLists ==
    {ContainerList(s, n) : s \in {1, 2}, n \in 0..MaxContainers}

Merge(f, g) == [k \in (DOMAIN f) \cup (DOMAIN g) |-> IF k \in DOMAIN f THEN f[k] ELSE g[k]]

Tags == << [key |-> "team", value |-> "data"] >>

\* **kwargs of the environments that setup and execute are run on
LifecycleKwargs ==
    { Merge(f, Merge(c, r)) :
        f \in {EmptyDict, [family |-> "my-family"]},
        c \in {EmptyDict} \cup {[containerDefinitions |-> l] : l \in ContainerLists},
        r \in {EmptyDict, [cluster |-> "my-cluster", tags |-> Tags]} }

LifecycleArgs ==
    [launch_type : {"FARGATE", "EC2"}, executor : {NoExecutor},
     executor_kwargs : {None}, kwargs : LifecycleKwargs]

\* **kwargs of the environments whose construction alone is examined
KwargValue ==
    [family |-> "my-family", cpu |-> "256",
     containerDefinitions |-> <<ContainerTemplates[1]>>,
     tags |-> Tags, placementConstraints |-> <<[type |-> "distinctInstance"]>>,
     cluster |-> "my-cluster", taskDefinition |-> "my-family",
     launchtype |-> "EC2", foo |-> "bar"]

ConstructorKwargs == {[k \in S |-> KwargValue[k]] : S \in SUBSET DOMAIN KwargValue}

ExecutorArguments ==
    { NoExecutor,
      [class |-> "LocalExecutor", obj |-> "executor-1"],
      [class |-> "DaskExecutor", obj |-> "executor-2"],
      [class |-> "str", obj |-> "'dask'"],
      [class |-> "type", obj |-> "DaskExecutor"] }

ExecutorKwargs == {None, Some(EmptyDict), Some([address |-> "tcp://scheduler"])}

ConstructorArgs ==
    [launch_type : {"FARGATE", "EC2"}, executor : ExecutorArguments,
     executor_kwargs : ExecutorKwargs, kwargs : ConstructorKwargs]

----------------------------------------------------------------------------
(* Specifications *)

NoArgs ==
    [launch_type |-> "", executor |-> NoExecutor, executor_kwargs |-> None,
     kwargs |-> EmptyDict]

Init ==
    /\ status = "new"
    /\ args = NoArgs
    /\ launch_type = ""
    /\ executor = NoExecutor
    /\ task_definition_kwargs = EmptyDict
    /\ task_run_kwargs = EmptyDict
    /\ warnings = <<>>
    /\ calls = <<>>
    /\ invocations = 0
    /\ last = [op |-> "none", flow |-> "", context |-> EmptyDict,
               before |-> EmptyDict, mark |-> 0, raised |-> "none"]

Construct == status = "new" /\ \E a \in LifecycleArgs : __init__(a)

Setup ==
    \E flow \in Flows, describe_outcome \in Outcomes,
       register_outcome \in WriteOutcomes :
        setup(flow, describe_outcome, register_outcome)

Execute ==
    \E flow \in Flows, context \in Contexts, run_outcome \in WriteOutcomes :
        execute(flow, context, run_outcome)

Next == Construct \/ Setup \/ Execute

\* an environment is constructed, then set up and executed
Spec == Init /\ [][Next]_vars

ConstructAny == status = "new" /\ \E a \in ConstructorArgs : __init__(a)

NextConstruct == ConstructAny

\* the construction of an environment, over all kinds of arguments
SpecConstruct == Init /\ [][NextConstruct]_vars

----------------------------------------------------------------------------
(* Construction: C4, C6, C7 (checked under SpecConstruct) *)

\* C4: construction partitions the passthrough options by key name alone: a
\* supplied pair (k, v) is in the task-definition mapping iff k is in the
\* definition allow-list and in the task-run mapping iff k is in the run
\* allow-list; neither mapping holds a key that was not supplied.  So tags
\* and placementConstraints go to both, family only to the definition
\* mapping, cluster only to the run mapping, and foo to neither.
C4_PartitionByKeyName ==
    status = "constructed" =>
        /\ \A k \in DOMAIN args.kwargs :
              /\ (k \in DOMAIN task_definition_kwargs) <=> (k \in definition_kwarg_list)
              /\ (k \in DOMAIN task_run_kwargs) <=> (k \in run_kwarg_list)
              /\ k \in DOMAIN task_definition_kwargs
                    => task_definition_kwargs[k] = args.kwargs[k]
              /\ k \in DOMAIN task_run_kwargs
                    => task_run_kwargs[k] = args.kwargs[k]
        /\ DOMAIN task_definition_kwargs \subseteq DOMAIN args.kwargs
        /\ DOMAIN task_run_kwargs \subseteq DOMAIN args.kwargs
        /\ \A k \in {"tags", "placementConstraints"} \cap DOMAIN args.kwargs :
              k \in DOMAIN task_definition_kwargs /\ k \in DOMAIN task_run_kwargs
        /\ \A k \in {"family", "cpu", "containerDefinitions"} \cap DOMAIN args.kwargs :
              k \in DOMAIN task_definition_kwargs /\ k \notin DOMAIN task_run_kwargs
        /\ \A k \in {"cluster", "taskDefinition"} \cap DOMAIN args.kwargs :
              k \notin DOMAIN task_definition_kwargs /\ k \in DOMAIN task_run_kwargs
        /\ \A k \in {"foo", "launchtype"} :
              k \notin DOMAIN task_definition_kwargs /\ k \notin DOMAIN task_run_kwargs

C4_Witness ==
    /\ status = "constructed"
    /\ {"tags", "family", "cluster", "foo"} \subseteq DOMAIN args.kwargs
    /\ DOMAIN task_definition_kwargs = {"tags", "family"}
    /\ DOMAIN task_run_kwargs = {"tags", "cluster"}

\* C6: an executor argument that is neither None nor an Executor instance
\* makes construction raise TypeError and yields no environment; with no
\* executor the environment holds an instance of the default executor
\* class; with an Executor instance it holds that same instance.
C6_ExecutorArgument ==
    status # "new" =>
        /\ (args.executor # NoExecutor /\ args.executor.class \notin ExecutorClasses)
              => status = "TypeError" /\ executor = NoExecutor
        /\ args.executor = NoExecutor
              => /\ status = "constructed"
                 /\ executor.class = DefaultExecutorClass
                 /\ executor \notin ExecutorArguments
        /\ args.executor.class \in ExecutorClasses
              => status = "constructed" /\ executor = args.executor

C6_Witness ==
    /\ status = "TypeError"
    /\ args.executor = [class |-> "type", obj |-> "DaskExecutor"]

\* C7 as claimed: with executor_kwargs supplied (not None) the deprecation
\* warning is issued and construction succeeds, whatever the other arguments.
C7_WarnsAndAlwaysSucceeds ==
    (status # "new" /\ args.executor_kwargs # None) =>
        /\ warnings = <<DeprecationMessage>>
        /\ status = "constructed"

\* C7, amended: with executor_kwargs supplied (not None, an empty dict
\* included) the deprecation warning is issued once and raises nothing by
\* itself; construction succeeds exactly when the executor argument is None
\* or an Executor instance, and raises TypeError otherwise; without
\* executor_kwargs no warning is issued.
C7_WarnsAndSucceedsUnlessBadExecutor ==
    status # "new" =>
        /\ args.executor_kwargs # None => warnings = <<DeprecationMessage>>
        /\ args.executor_kwargs = None => warnings = <<>>
        /\ status = "constructed"
              <=> (args.executor = NoExecutor \/ args.executor.class \in ExecutorClasses)
        /\ status \in {"constructed", "TypeError"}

C7_Witness ==
    /\ status = "constructed"
    /\ args.executor_kwargs = Some(EmptyDict)
    /\ warnings = <<DeprecationMessage>>

----------------------------------------------------------------------------
(* setup and execute: C1, C2, C3, C5, C8, C9, C10 (checked under Spec).   *)
(* Each is stated of the most recent call, `last`: of the mapping before  *)
(* it (last.before), the mapping after it, and the calls it added to the  *)
(* log (NewCalls).                                                         *)

\* the calls the most recent setup/execute added to the log
NewCalls == SubSeq(calls, last.mark + 1, Len(calls))

\* the calls made before it
EarlierCalls == SubSeq(calls, 1, last.mark)

Registers(cs) == {i \in 1..Len(cs) : cs[i].api = "register_task_definition"}

\* the most recent call was a setup whose describe query ended with one of `outcomes`
SetupDescribed(outcomes) ==
    /\ last.op = "setup"
    /\ NewCalls # <<>>
    /\ NewCalls[1].api = "describe_task_definition"
    /\ NewCalls[1].outcome \in outcomes

\* the containerDefinitions the caller passed to the constructor
Supplied ==
    IF "containerDefinitions" \in DOMAIN args.kwargs
    THEN args.kwargs["containerDefinitions"] ELSE <<>>

\* the names of the variables setup appends, in the order it appends them
StandardNames ==
    << "PREFECT__CLOUD__GRAPHQL", "PREFECT__CLOUD__USE_LOCAL_SECRETS",
       "PREFECT__ENGINE__FLOW_RUNNER__DEFAULT_CLASS",
       "PREFECT__ENGINE__TASK_RUNNER__DEFAULT_CLASS",
       "PREFECT__LOGGING__LOG_TO_CLOUD", "PREFECT__LOGGING__EXTRA_LOGGERS" >>

\* how many entries of the environment list env carry the name n
Occurrences(env, n) == Cardinality({i \in 1..Len(env) : env[i].name = n})

\* the first entry of a registered payload is the flow's container
FirstIsFlowContainer(payload, flow) ==
    LET first == payload["containerDefinitions"][1]
    IN  /\ first["name"] = "flow-container"
        /\ first["image"] = get_flow_image(flow)
        /\ first["command"] =
              << "/bin/sh", "-c",
                 "python -c 'import prefect; prefect.environments.FargateTaskEnvironment().run_flow()'" >>
        /\ \A j \in 1..Len(StandardNames) :
              Occurrences(first["environment"], StandardNames[j]) >= 1

\* C1 as claimed: whatever containerDefinitions the options supply, when
\* describe reports no definition the payload setup registers holds exactly
\* one container definition, whose first entry is the flow's container.
C1_ExactlyOneContainer ==
    SetupDescribed(ClientErrorCodes) =>
        /\ Len(NewCalls) = 2
        /\ NewCalls[2].api = "register_task_definition"
        /\ NewCalls[2].request = task_definition_kwargs
        /\ Len(NewCalls[2].request["containerDefinitions"]) = 1
        /\ FirstIsFlowContainer(NewCalls[2].request, last.flow)

\* C1, amended: when describe reports no definition, the payload setup
\* registers holds one container definition if the options supplied none
\* (or an empty list) and otherwise as many as were supplied; its first
\* entry has name flow-container, the image resolved for the flow, the
\* fixed command, and an environment with every variable setup appends.
C1_AtLeastOneContainer ==
    SetupDescribed(ClientErrorCodes) =>
        /\ Len(NewCalls) = 2
        /\ NewCalls[2].api = "register_task_definition"
        /\ NewCalls[2].request = task_definition_kwargs
        /\ Len(NewCalls[2].request["containerDefinitions"]) =
              (IF Supplied = <<>> THEN 1 ELSE Len(Supplied))
        /\ FirstIsFlowContainer(NewCalls[2].request, last.flow)

C1_Witness ==
    /\ SetupDescribed(ClientErrorCodes)
    /\ Len(Supplied) = 2
    /\ Len(Last(calls).request["containerDefinitions"]) = 2
    /\ Last(calls).request["containerDefinitions"][1]["name"] = "flow-container"

\* C2: when describe succeeds, setup makes no register call, raises
\* nothing and leaves the task-definition mapping, user-supplied container
\* entries included, as it was.
C2_SkipOnExists ==
    SetupDescribed({"ok"}) =>
        /\ task_definition_kwargs = last.before
        /\ Registers(NewCalls) = {}
        /\ Len(NewCalls) = 1
        /\ last.raised = "none"

C2_Witness ==
    /\ SetupDescribed({"ok"})
    /\ Supplied # <<>>
    /\ task_definition_kwargs["containerDefinitions"] = Supplied

\* the error code ECS answers a describe of a missing definition with: the
\* not-found class of the claim
NotFoundCodes == {"ClientException"}

\* C3 as claimed: of the errors describe can raise, only one of the
\* not-found class leads to registration; every other one reaches the
\* caller of setup, with no register call and the mapping unchanged.
C3_OnlyNotFoundRegisters ==
    SetupDescribed(Outcomes \ {"ok"}) =>
        IF NewCalls[1].outcome \in NotFoundCodes
        THEN Registers(NewCalls) # {}
        ELSE /\ last.raised = NewCalls[1].outcome
             /\ Registers(NewCalls) = {}
             /\ task_definition_kwargs = last.before

\* the values an override's environment gives the variable n
OverrideValues(override, n) ==
    {override.environment[i].value :
        i \in {j \in 1..Len(override.environment) : override.environment[j].name = n}}

\* C5: every execute call issues a run_task request with exactly one
\* container override, named flow-container, carrying the run id of the
\* context (or unknown), the image resolved for the flow and the auth
\* token, whatever run options were configured and whatever setup calls
\* came before; launchType is the configured launch type and the other
\* fields are exactly the task-run mapping.
C5_ExecuteOverride ==
    last.op = "execute" =>
        /\ Len(NewCalls) = 1
        /\ NewCalls[1].api = "run_task"
        /\ LET request == NewCalls[1].request
               overrides == request["overrides"].containerOverrides
           IN  /\ DOMAIN request["overrides"] = {"containerOverrides"}
               /\ Len(overrides) = 1
               /\ overrides[1].name = "flow-container"
               /\ OverrideValues(overrides[1], "PREFECT__CONTEXT__FLOW_RUN_ID") =
                     {IF last.context = EmptyDict THEN "unknown"
                      ELSE last.context["flow_run_id"]}
               /\ OverrideValues(overrides[1], "PREFECT__CONTEXT__IMAGE") =
                     {get_flow_image(last.flow)}
               /\ Cardinality(OverrideValues(overrides[1], "PREFECT__CLOUD__AUTH_TOKEN")) = 1
               /\ request["launchType"] = args.launch_type
               /\ Without(request, {"overrides", "launchType"}) = task_run_kwargs
               /\ task_run_kwargs = SelectKeys(args.kwargs, run_kwarg_list)

C5_Witness ==
    /\ last.op = "execute"
    /\ last.context = EmptyDict
    /\ Registers(EarlierCalls) # {}
    /\ Last(calls).request["launchType"] = "EC2"
    /\ DOMAIN Last(calls).request = {"overrides", "launchType", "cluster", "tags"}

\* C8 as claimed: once setup has registered a definition for a flow, a
\* later setup call for that flow in which the definition is again
\* reported absent leaves the task-definition mapping as the earlier call
\* left it, each appended variable occurring once in each container, and
\* registers the same payload.
C8_SetupIdempotent ==
    ( /\ SetupDescribed(ClientErrorCodes)
      /\ Registers(EarlierCalls) # {}
      /\ last.before["containerDefinitions"][1]["image"] = get_flow_image(last.flow) )
    =>
        /\ task_definition_kwargs = last.before
        /\ Last(calls).request = last.before
        /\ \A i \in 1..Len(task_definition_kwargs["containerDefinitions"]) :
             \A j \in 1..Len(StandardNames) :
                Occurrences(task_definition_kwargs["containerDefinitions"][i]["environment"],
                            StandardNames[j]) = 1

\* C9: a setup call issues exactly one describe_task_definition query,
\* keyed by the configured family, before anything else, and at most one
\* register_task_definition call, only after that query failed in the same
\* call and with the first container's name, image and command set; a
\* call that failed is not made again; execute issues exactly one
\* run_task call and no describe or register call.
C9_CallOrder ==
    /\ last.op = "setup" =>
          /\ Len(NewCalls) \in {1, 2}
          /\ NewCalls[1].api = "describe_task_definition"
          /\ NewCalls[1].request = [taskDefinition |-> Get(args.kwargs, "family")]
          /\ Len(NewCalls) = 2 =>
                /\ NewCalls[1].outcome # "ok"
                /\ NewCalls[2].api = "register_task_definition"
                /\ NewCalls[2].request["containerDefinitions"][1]["name"] = "flow-container"
                /\ NewCalls[2].request["containerDefinitions"][1]["image"]
                      = get_flow_image(last.flow)
                /\ NewCalls[2].request["containerDefinitions"][1]["command"] = FlowCommand
    /\ last.op = "execute" =>
          /\ Len(NewCalls) = 1
          /\ NewCalls[1].api = "run_task"
    /\ last.op # "none" =>
          \* the last call of the log is the only one that may have failed
          \* with the error the caller got
          /\ last.raised # "none" => Last(NewCalls).outcome = last.raised
          /\ last.raised = "none" => Last(NewCalls).outcome = "ok"
    /\ Len(calls) <= 2 * invocations

C9_Witness ==
    /\ last.op = "execute"
    /\ last.raised # "none"
    /\ Len(calls) = 3
    /\ calls[1].api = "describe_task_definition"
    /\ calls[1].request = [taskDefinition |-> Some("my-family")]
    /\ calls[2].api = "register_task_definition"
    /\ calls[2].outcome # "ok"
    /\ calls[3].api = "run_task"

\* the environment list of a container entry, empty when it has none
EnvironmentOf(definition) ==
    IF "environment" \in DOMAIN definition THEN definition["environment"] ELSE <<>>

\* C10: when setup registers a definition built from a non-empty list of
\* container entries, every entry's environment is its former entries, in
\* order, followed by the appended variables; name, image and command are
\* overwritten on the first entry only; every other field of the first
\* entry and every field but the environment of the later entries is
\* unchanged, and so are the number and order of the entries.
C10_ContainerFrame ==
    ( /\ SetupDescribed(ClientErrorCodes)
      /\ ~FalsyList(last.before, "containerDefinitions") )
    =>
        LET old == last.before["containerDefinitions"]
            new == Last(NewCalls).request["containerDefinitions"]
        IN  /\ Last(NewCalls).api = "register_task_definition"
            /\ Last(NewCalls).request = task_definition_kwargs
            /\ Len(new) = Len(old)
            /\ Without(task_definition_kwargs, {"containerDefinitions"})
                  = Without(last.before, {"containerDefinitions"})
            /\ \A i \in 1..Len(old) :
                  LET before == EnvironmentOf(old[i])
                      after  == new[i]["environment"]
                  IN  /\ Len(after) = Len(before) + Len(StandardNames)
                      /\ SubSeq(after, 1, Len(before)) = before
                      /\ \A j \in 1..Len(StandardNames) :
                            after[Len(before) + j].name = StandardNames[j]
            /\ new[1]["name"] = "flow-container"
            /\ new[1]["image"] = get_flow_image(last.flow)
            /\ new[1]["command"] = FlowCommand
            /\ Without(new[1], {"name", "image", "command", "environment"})
                  = Without(old[1], {"name", "image", "command", "environment"})
            /\ \A i \in 2..Len(old) :
                  Without(new[i], {"environment"}) = Without(old[i], {"environment"})

C10_Witness ==
    /\ SetupDescribed(ClientErrorCodes)
    /\ Len(Supplied) = 2
    /\ last.before = SelectKeys(args.kwargs, definition_kwarg_list)
    /\ DOMAIN Supplied[2] = {}
    /\ "name" \in DOMAIN Supplied[1]
    /\ Supplied[1]["name"] = "user-name"
    /\ Len(task_definition_kwargs["containerDefinitions"][1]["environment"])
          = Len(UserEnvironment) + Len(StandardNames)
    /\ task_definition_kwargs["containerDefinitions"][2]
          = [environment |-> env_values]

====
